---------------------------- MODULE Spec2Model ----------------------------
(***************************************************************************)
(* Model of metadoc/core/containers.py: the Coordinates dependency graph   *)
(* (_validate_coords, _update, copy) and the Series/DataFrame containers   *)
(* built on it.                                                            *)
(*                                                                         *)
(* A Python mapping is modelled as an ordered dictionary: a sequence of    *)
(* <<key, value>> pairs with distinct keys.  An OrderedDict iterates in    *)
(* that order; a plain dict iterates in some order, and the inputs range   *)
(* over every order.  A Python set is iterated in the order given by a     *)
(* permutation `ord` of the names that the calling action chooses.         *)
(***************************************************************************)
EXTENDS Integers, Sequences, FiniteSets, TLC

\* Most defaults handed to one get or pop call.
MaxDefaults == 2

\* Longest list of dependencies a declared coordinate may name.
MaxDeps == 2

\* Most entries in the mapping handed to one _update call.
MaxAdd == 1

\* The coordinate names that declarations are written over.
Names == {"a", "b", "x"}

(***************************************************************************)
(* Dependency specs: None, a single name, a list of names, or (in a built  *)
(* dependency map) a set of names.                                         *)
(***************************************************************************)
None == [t |-> "none", d |-> "", l |-> <<>>, s |-> {}]
Str(n) == [t |-> "str", d |-> n, l |-> <<>>, s |-> {}]
List(q) == [t |-> "list", d |-> "", l |-> q, s |-> {}]
SetOf(S) == [t |-> "set", d |-> "", l |-> <<>>, s |-> S]

Range(q) == {q[i] : i \in 1..Len(q)}

\* Sequences over S without repetition, of length at most n.
RECURSIVE DistinctSeqs(_, _)
DistinctSeqs(S, n) ==
  IF n = 0 THEN {<<>>}
  ELSE LET shorter == DistinctSeqs(S, n - 1)
       IN shorter \cup UNION {{Append(q, e) : e \in S \ Range(q)} :
                                q \in {p \in shorter : Len(p) = n - 1}}

\* The orders in which a Python set may iterate the names of S.
Orders(S) == {q \in DistinctSeqs(S, Cardinality(S)) : Len(q) = Cardinality(S)}

(***************************************************************************)
(* Ordered dictionaries.                                                   *)
(***************************************************************************)
Keys(od) == [i \in 1..Len(od) |-> od[i][1]]
KeySet(od) == {od[i][1] : i \in 1..Len(od)}
Get(od, k) == od[CHOOSE i \in 1..Len(od) : od[i][1] = k][2]
\* dict.pop(k) on a key that is present
Pop(od, k) == SelectSeq(od, LAMBDA e : e[1] # k)
\* d[k] = v: an existing key keeps its place, a new key goes last
Put(od, k, v) ==
  IF k \in KeySet(od)
  THEN [i \in 1..Len(od) |-> IF od[i][1] = k THEN <<k, v>> ELSE od[i]]
  ELSE Append(od, <<k, v>>)
\* d.update(other)
RECURSIVE DictUpdate(_, _)
DictUpdate(od, other) ==
  IF other = <<>> THEN od
  ELSE DictUpdate(Put(od, Head(other)[1], Head(other)[2]), Tail(other))

\* The elements of a dependency spec in the order Python iterates them.
\* (ord orders the names that occur in sets of two or more elements.)
Elements(v, ord) ==
  IF v.t = "list" THEN v.l
  ELSE IF Cardinality(v.s) > 1 THEN SelectSeq(ord, LAMBDA n : n \in v.s)
  ELSE IF v.s = {} THEN <<>> ELSE <<CHOOSE n \in v.s : TRUE>>

\* The names a dependency spec refers to.
DepNames(v) ==
  CASE v.t = "none" -> {}
    [] v.t = "str" -> {v.d}
    [] v.t = "list" -> Range(v.l)
    [] v.t = "set" -> v.s

(***************************************************************************)
(* Coordinates._validate_coords.  The locals of one call are a record:     *)
(*   coords        the mapping passed in, popped as coordinates resolve    *)
(*   base_coords   list of base coordinates, in the order appended         *)
(*   dependencies  OrderedDict coordinate -> None or set of names          *)
(*   base_deps     dict coordinate -> a set object; an alias shares the    *)
(*                 set object of its dependency, so base_deps maps to the  *)
(*                 coordinate that created the object and heap holds the   *)
(*                 objects' contents                                       *)
(*   visited       set of coordinates entered                              *)
(*   err           the exception raised, "none" while running              *)
(*   pops          how many times coords.pop was called on each name       *)
(***************************************************************************)
\* coords.pop has not been called on any name.
NoPops == [n \in Names |-> 0]

Locals(coords) ==
  [coords |-> coords, base_coords |-> <<>>, dependencies |-> <<>>,
   base_deps |-> <<>>, heap |-> <<>>, visited |-> {}, err |-> "none",
   pops |-> NoPops]

Raise(st, e) == [st EXCEPT !.err = e]

\* lines 66-70: a base coordinate
ResolveBase(st, coord) ==
  [st EXCEPT !.base_coords = Append(@, coord),
             !.dependencies = Put(@, coord, None),
             !.base_deps = Put(@, coord, coord),
             !.heap = Put(@, coord, {coord}),
             !.visited = @ \cup {coord}]

\* lines 75-76 with base_deps[deps] bound to a fresh one-element set
FinishAliasFresh(st, coord, deps) ==
  [st EXCEPT !.dependencies = Put(@, coord, SetOf({deps})),
             !.base_deps = Put(@, coord, coord),
             !.heap = Put(@, coord, {deps})]

\* lines 75-76: after the recursion, an alias takes its dependency's set object
FinishAlias(st, coord, deps) ==
  [st EXCEPT !.dependencies = Put(@, coord, SetOf({deps})),
             !.base_deps = Put(@, coord, Get(st.base_deps, deps))]

\* lines 79-81: a multi-dependency coordinate is registered before its
\* dependencies are resolved
EnterMulti(st, coord) ==
  [st EXCEPT !.visited = @ \cup {coord},
             !.dependencies = Put(@, coord, SetOf({})),
             !.base_deps = Put(@, coord, coord),
             !.heap = Put(@, coord, {})]

\* lines 84-85: dependencies[coord].add(ele); base_deps[coord] |= base_deps[ele]
AddElement(st, coord, ele) ==
  LET obj == Get(st.base_deps, coord)
  IN [st EXCEPT !.dependencies = Put(@, coord, SetOf(Get(@, coord).s \cup {ele})),
                !.heap = Put(@, obj, Get(@, obj) \cup Get(@, Get(st.base_deps, ele)))]

\* lines 58-61: a coordinate met again
Revisit(st, coord) ==
  IF coord \notin KeySet(st.dependencies)
  THEN Raise(st, "GraphIsCyclicError")
  ELSE st

RECURSIVE find_coord_dependencies(_, _, _)
RECURSIVE ForEle(_, _, _, _)

\* lines 82-85: the loop over the elements of a multi-dependency
ForEle(st, coord, eles, ord) ==
  IF eles = <<>> \/ st.err # "none" THEN st
  ELSE LET st1 == find_coord_dependencies(st, Head(eles), ord)
       IN IF st1.err # "none" THEN st1
          ELSE ForEle(AddElement(st1, coord, Head(eles)), coord, Tail(eles), ord)

\* lines 57-85 without the test of `visited` at lines 58-61
find_coord_dependencies_unvisited(st, coord, ord) ==
  IF coord \notin KeySet(st.coords)
  THEN Raise([st EXCEPT !.pops[coord] = @ + 1], "KeyError")
  ELSE
    LET deps == Get(st.coords, coord)
        st0 == [st EXCEPT !.coords = Pop(@, coord),
                          !.pops[coord] = @ + 1]
    IN CASE deps.t = "none" -> ResolveBase(st0, coord)
         [] deps.t = "str" ->
              LET st1 == find_coord_dependencies(
                           [st0 EXCEPT !.visited = @ \cup {coord}], deps.d, ord)
              IN IF st1.err # "none" THEN st1
                 ELSE FinishAlias(st1, coord, deps.d)
         [] OTHER ->
              ForEle(EnterMulti(st0, coord), coord, Elements(deps, ord), ord)

\* lines 57-85; coords.pop(coord) at line 63 raises KeyError on a name
\* that the mapping does not hold
find_coord_dependencies(st, coord, ord) ==
  IF coord \in st.visited THEN Revisit(st, coord)
  ELSE IF coord \notin KeySet(st.coords)
  THEN Raise([st EXCEPT !.pops[coord] = @ + 1], "KeyError")
  ELSE
    LET deps == Get(st.coords, coord)
        st0 == [st EXCEPT !.coords = Pop(@, coord),
                          !.pops[coord] = @ + 1]
    IN CASE deps.t = "none" -> ResolveBase(st0, coord)
         [] deps.t = "str" ->
              LET st1 == find_coord_dependencies(
                           [st0 EXCEPT !.visited = @ \cup {coord}], deps.d, ord)
              IN IF st1.err # "none" THEN st1
                 ELSE FinishAlias(st1, coord, deps.d)
         [] OTHER ->
              ForEle(EnterMulti(st0, coord), coord, Elements(deps, ord), ord)

\* lines 87-88: while len(coords) > 0
RECURSIVE WhileCoords(_, _)
WhileCoords(st, ord) ==
  IF st.err # "none" \/ st.coords = <<>> THEN st
  ELSE WhileCoords(find_coord_dependencies(st, st.coords[1][1], ord), ord)

\* The dict coordinate -> set of base coordinates that base_deps denotes.
BaseDepsOf(st) ==
  [k \in KeySet(st.base_deps) |-> Get(st.heap, Get(st.base_deps, k))]

\* lines 44-90, on a mapping: the returned triple (when err = "none") and the
\* caller's mapping as the call leaves it
validate_coords(coords, ord) ==
  LET st == WhileCoords(Locals(coords), ord)
  IN [err |-> st.err,
      dependencies |-> st.dependencies,
      base_coords |-> st.base_coords,
      base_deps |-> BaseDepsOf(st),
      left |-> st.coords,
      pops |-> st.pops]

\* lines 48-50, on a list of names: every name is a base coordinate
validate_names(names) ==
  [err |-> "none",
   dependencies |-> [i \in 1..Len(names) |-> <<names[i], None>>],
   base_coords |-> names,
   base_deps |-> [k \in Range(names) |-> {k}],
   left |-> names,
   pops |-> NoPops]

(***************************************************************************)
(* The Coordinates class.                                                  *)
(***************************************************************************)
\* A name not yet bound to a Coordinates instance.
NoInstance ==
  [exists |-> FALSE, coords |-> <<>>, base_coords |-> <<>>,
   base_deps |-> [k \in {} |-> {}]]

Instance(r) ==
  [exists |-> TRUE, coords |-> r.dependencies, base_coords |-> r.base_coords,
   base_deps |-> r.base_deps]

\* lines 24-31: Coordinates(coords), that is __init__ and __set__
Coordinates(coords, ord) ==
  LET r == validate_coords(coords, ord)
  IN [err |-> r.err,
      inst |-> IF r.err = "none" THEN Instance(r) ELSE NoInstance,
      left |-> r.left, pops |-> r.pops]

\* lines 93-106 with the fields assigned before the assertion is tested
update_assign_first(self, coords, ord) ==
  LET merged == DictUpdate(IF self.exists THEN self.coords ELSE <<>>, coords)
      r == validate_coords(merged, ord)
  IN IF r.err # "none" THEN [err |-> r.err, inst |-> self]
     ELSE [err |-> IF Len(r.base_coords) > 0 THEN "none" ELSE "AssertionError",
           inst |-> Instance(r)]

\* lines 93-106: Coordinates._update(coords), coords a mapping
update(self, coords, ord) ==
  LET merged == DictUpdate(IF self.exists THEN self.coords ELSE <<>>, coords)
      r == validate_coords(merged, ord)
  IN IF r.err # "none" THEN [err |-> r.err, inst |-> self]
     ELSE IF ~(Len(r.base_coords) > 0)
          THEN [err |-> "AssertionError", inst |-> self]
          ELSE [err |-> "none", inst |-> Instance(r)]

\* lines 33-34: Coordinates.copy()
copy(self, ord) == Coordinates(self.coords, ord)

(***************************************************************************)
(* Inputs.                                                                 *)
(***************************************************************************)
\* Dependency specs a caller may write.
Values ==
  {None} \cup {Str(n) : n \in Names}
         \cup {List(q) : q \in DistinctSeqs(Names, MaxDeps)}

\* Mappings from at most n of the keys K to the values V, in every order of
\* the keys.
MappingsOver(K, V, n) ==
  UNION {{[i \in 1..Len(ks) |-> <<ks[i], f[i]>>] : f \in [1..Len(ks) -> V]} :
           ks \in DistinctSeqs(K, n)}

Mappings(n) == MappingsOver(Names, Values, n)

Declarations == Mappings(Cardinality(Names))
Additions == Mappings(MaxAdd)

\* The set iteration orders that a build of od may meet: the orders of the
\* names held in its sets of two or more elements.
OrdersFor(od) ==
  Orders(UNION {od[i][2].s : i \in {j \in 1..Len(od) : Cardinality(od[j][2].s) > 1}})

(***************************************************************************)
(* Containers: Container, Series and DataFrame.  Of the tabular object the *)
(* model keeps the names of its index levels; PyNone is the name of an     *)
(* unnamed level.  An optional argument is a record [has, m]: whether it   *)
(* was passed, and the mapping passed.                                     *)
(***************************************************************************)
PyNone == "None"

Absent == [has |-> FALSE, m |-> <<>>]
Given(m) == [has |-> TRUE, m |-> m]

\* 'index_{}'.format(i), line 126
IndexName == <<"index_0", "index_1", "index_2", "index_3">>

\* lines 125-127: Container.__init__(coords); coords.has is FALSE for None
Container_init(coords, index) ==
  IF ~coords.has
  THEN Coordinates([i \in 1..Len(index) |->
                      <<IF index[i] = PyNone THEN IndexName[i] ELSE index[i], None>>],
                   <<>>)
  ELSE Coordinates(coords.m, <<>>)

\* lines 299-300 with the two mappings exchanged
pull_reversed(nested, direct) ==
  DictUpdate(IF direct.has THEN direct.m ELSE <<>>,
             IF nested.has THEN nested.m ELSE <<>>)

\* lines 299-300 (and 349-353): x = attrs.pop(name, {}); x.update(kwargs.pop(name, {}))
pull(nested, direct) ==
  DictUpdate(IF nested.has THEN nested.m ELSE <<>>,
             IF direct.has THEN direct.m ELSE <<>>)

\* The keys of the attrs dict passed in kw.
AttrsKeys(kw) ==
  kw.attrs_other \cup (IF kw.attrs_coords.has THEN {"coords"} ELSE {})
                 \cup (IF kw.attrs_variables.has THEN {"variables"} ELSE {})

\* lines 295-305: Series(data, attrs=..., coords=...).  A `variables` keyword
\* is left in kwargs and pandas.Series.__init__ rejects it at line 304.
Series_init(kw, index) ==
  IF kw.variables.has
  THEN [err |-> "TypeError", inst |-> NoInstance, attrs |-> {},
        used |-> <<>>, variables |-> <<>>]
  ELSE LET coords == pull(kw.attrs_coords, kw.coords)
           c == Container_init(Given(coords), index)
       IN [err |-> c.err, inst |-> c.inst,
           attrs |-> AttrsKeys(kw) \ {"coords"},
           used |-> coords, variables |-> <<>>]

\* lines 345-360: DataFrame(data, attrs=..., coords=..., variables=...)
DataFrame_init(kw, index) ==
  LET coords == pull(kw.attrs_coords, kw.coords)
      variables == pull(kw.attrs_variables, kw.variables)
      c == Container_init(Given(coords), index)
  IN [err |-> c.err, inst |-> c.inst,
      attrs |-> AttrsKeys(kw) \ {"coords", "variables"},
      used |-> coords, variables |-> variables]

\* pandas reset_index(levels, drop=False) as called at lines 237 and 242: the
\* names of the index levels left, <<PyNone>> (a default index) when none is
\* left, or KeyError when a level named is not in the index
reset_index(index, levels) ==
  IF \E l \in Range(levels) : l \notin Range(index)
  THEN [err |-> "KeyError", index |-> index]
  ELSE LET left == SelectSeq(index, LAMBDA n : n \notin Range(levels))
       IN [err |-> "none", index |-> IF left = <<>> THEN <<PyNone>> ELSE left]

LevelName == <<"level_0", "level_1", "level_2", "level_3">>

\* xr.DataArray.from_series as called at lines 239 and 246: the dimensions
\* of the array made from a series with the given index level names
from_series(index) ==
  IF Len(index) = 1
  THEN <<IF index[1] = PyNone THEN "index" ELSE index[1]>>
  ELSE [i \in 1..Len(index) |->
          IF index[i] = PyNone THEN LevelName[i] ELSE index[i]]

\* lines 203-217: Container.update_coords() with coords left None.  Each of
\* the three branches calls self._validate_coords, which no class of the
\* container defines (it is a static method of Coordinates, lines 44-45):
\* the attribute lookup raises AttributeError, in the second and third
\* branch after the index levels were renamed.  Level names of which some
\* but not all are null match no branch and coords, still None, goes to
\* _update, whose dict.update(None) raises TypeError (line 99).
update_coords(c, index) ==
  IF \A i \in 1..Len(index) : index[i] # PyNone
  THEN [err |-> "AttributeError", inst |-> c, index |-> index]
  ELSE IF Len(index) = 1 /\ index[1] = PyNone
  THEN [err |-> "AttributeError", inst |-> c, index |-> <<"index">>]
  ELSE IF \A i \in 1..Len(index) : index[i] = PyNone
  THEN [err |-> "AttributeError", inst |-> c,
        index |-> [i \in 1..Len(index) |-> LevelName[i]]]
  ELSE [err |-> "TypeError", inst |-> c, index |-> index]

\* line 237 with the levels taken out being the non-base coordinates
coord_levels_nonbase(c, coord) ==
  SelectSeq(Keys(c.coords), LAMBDA k : k \notin Range(c.base_coords))

\* line 237: [c for c in self.coords if not c in self._coords._base_dependencies[coord]]
coord_levels(c, coord) ==
  SelectSeq(Keys(c.coords), LAMBDA k : k \notin c.base_deps[coord])

\* line 242: [c for c in self.coords.keys() if not c in self.base_coords]
derived_coords(c) ==
  SelectSeq(Keys(c.coords), LAMBDA k : k \notin Range(c.base_coords))

\* lines 232-251: to_xarray on a 2-D container.  The result gives, for every
\* derived coordinate and for the data columns, the dimensions of its array.
to_xarray(c, index) ==
  LET derived == derived_coords(c)
      arr(coord) == reset_index(index, coord_levels(c, coord))
      base_df == IF Len(c.coords) > Len(c.base_coords)
                 THEN reset_index(index, derived)
                 ELSE [err |-> "none", index |-> index]
  IN IF \E i \in 1..Len(derived) : arr(derived[i]).err # "none"
     THEN [done |-> TRUE, err |-> "KeyError", coords |-> <<>>, data |-> <<>>]
     ELSE IF base_df.err # "none"
     THEN [done |-> TRUE, err |-> base_df.err, coords |-> <<>>, data |-> <<>>]
     ELSE [done |-> TRUE, err |-> "none",
           coords |-> [i \in 1..Len(derived) |->
                         <<derived[i], from_series(arr(derived[i]).index)>>],
           data |-> from_series(base_df.index)]

NoDataset == [done |-> FALSE, err |-> "none", coords |-> <<>>, data |-> <<>>]

\* lines 282-285: the fields named in Series._metadata, which pandas'
\* __finalize__(other) copies from other onto the new object
finalize(made, other, other_attrs) ==
  [made EXCEPT !.inst = other, !.attrs = other_attrs]

\* lines 337-339 and 295-305: df[column].  pandas boxes the column with
\* _constructor_sliced, that is Series(values, index=df.index, name=column),
\* without attrs or coords, and then, in the releases that propagate
\* metadata on column selection, calls __finalize__(df) on the result.
getitem_column(c, df_attrs, index, propagates) ==
  LET s == Series_init([attrs_other |-> {}, attrs_coords |-> Absent,
                        coords |-> Absent, attrs_variables |-> Absent,
                        variables |-> Absent], index)
      made == [done |-> TRUE, inst |-> s.inst, attrs |-> s.attrs]
  IN IF propagates THEN finalize(made, c, df_attrs) ELSE made

\* Keyword arguments of a container constructor.
SimpleValues == {None} \cup {Str(n) : n \in Names}
SmallMaps == MappingsOver(Names, SimpleValues, 1)
VarMaps == MappingsOver({"col1"}, {"d1", "d2"}, 1)
Maybe(S) == {Absent} \cup {Given(m) : m \in S}

\* both nested and direct arguments, small mappings
MergeKw ==
  [attrs_other : {{}, {"author"}}, attrs_coords : Maybe(SmallMaps),
   coords : Maybe(SmallMaps), attrs_variables : Maybe(VarMaps),
   variables : Maybe(VarMaps)]

\* a declaration passed directly, nothing else
GraphKw ==
  [attrs_other : {{}}, attrs_coords : {Absent},
   coords : {Given(d) : d \in Declarations}, attrs_variables : {Absent},
   variables : {Absent}]

OtherIndexes ==
  {<<PyNone>>, <<"a">>, <<"a", "b">>, <<"a", PyNone>>, <<PyNone, PyNone>>}

\* The index level names a container built from kw may come with: the
\* coordinates it declares or, for the small mappings, some other index.
IndexChoices(kw) ==
  LET declared == Keys(pull(kw.attrs_coords, kw.coords))
  IN IF kw \in GraphKw
     THEN {IF declared = <<>> THEN <<PyNone>> ELSE declared}
     ELSE ({declared} \ {<<>>}) \cup OtherIndexes

(***************************************************************************)
(* Attributes: a mapping of keys to values, with get and pop that tell a   *)
(* missing key from a key set to null.  A call's defaults are the          *)
(* positional arguments after the key.                                     *)
(***************************************************************************)
AttrKeys == {"author", "contact"}
AttrValues == {"My Name", "me@email.com", PyNone}
AttrMaps == MappingsOver(AttrKeys, AttrValues, Cardinality(AttrKeys))
Defaults == UNION {[1..n -> AttrValues] : n \in 0..MaxDefaults}

\* lines 269-274: Attributes(attrs) keeps the mapping it is given
Attributes_init(m) == m

\* get with the behaviour of dict.get: a missing key without a default
\* gives null
Attributes_get_dict(m, key, defaults) ==
  IF Len(defaults) > 1
  THEN [err |-> "ValueError", has |-> FALSE, v |-> PyNone, attrs |-> m]
  ELSE [err |-> "none", has |-> TRUE, attrs |-> m,
        v |-> IF key \in KeySet(m) THEN Get(m, key)
              ELSE IF defaults = <<>> THEN PyNone ELSE defaults[1]]

\* attrs.get(key, *defaults)
Attributes_get(m, key, defaults) ==
  IF Len(defaults) > 1
  THEN [err |-> "ValueError", has |-> FALSE, v |-> PyNone, attrs |-> m]
  ELSE IF key \in KeySet(m)
  THEN [err |-> "none", has |-> TRUE, v |-> Get(m, key), attrs |-> m]
  ELSE IF defaults = <<>>
  THEN [err |-> "KeyError", has |-> FALSE, v |-> PyNone, attrs |-> m]
  ELSE [err |-> "none", has |-> TRUE, v |-> defaults[1], attrs |-> m]

\* attrs.pop(key, *defaults): get, and the key removed when it is present
Attributes_pop(m, key, defaults) ==
  LET g == Attributes_get(m, key, defaults)
  IN IF g.err = "none" /\ key \in KeySet(m)
     THEN [g EXCEPT !.attrs = Pop(m, key)]
     ELSE g

(***************************************************************************)
(* The state: one name `inst` bound to a Coordinates instance, the last    *)
(* operation and its outcome (the exception raised, or "none"), and, for   *)
(* a build on a caller's mapping, that mapping before (arg) and after      *)
(* (argAfter) the call.  An exception is not caught: it ends the run.      *)
(* For a container, box holds the constructor's arguments kw and the index *)
(* level names of its data from the start, and the container's kind and    *)
(* fields once constructed (its Coordinates instance is inst); ds is the   *)
(* result of to_xarray and sliced the Series that df[column] returned.     *)
(* pops counts, for every name, the coords.pop(name) calls of the build.   *)
(* attrs and ret are the entries of a standalone Attributes object and the *)
(* value its last get or pop returned.                                     *)
(***************************************************************************)
VARIABLES op, err, arg, argAfter, inst, box, ds, sliced, pops, attrs, ret

vars == <<op, err, arg, argAfter, inst, box, ds, sliced, pops, attrs, ret>>

NoKw ==
  [attrs_other |-> {}, attrs_coords |-> Absent, coords |-> Absent,
   attrs_variables |-> Absent, variables |-> Absent]

NoBox ==
  [kind |-> "none", kw |-> NoKw, index |-> <<>>, attrs |-> {},
   used |-> <<>>, variables |-> <<>>]

\* No column has been taken from the DataFrame.
NoSlice == [done |-> FALSE, inst |-> NoInstance, attrs |-> {}]

\* No get or pop has been called: ret holds the key and the defaults of the
\* last call and, when has is TRUE, the value v that it returned.
NoReturn == [has |-> FALSE, v |-> PyNone, key |-> "", defaults |-> <<>>]

(***************************************************************************)
(* SpecBuild: one build, Coordinates(arg), on every declaration.           *)
(***************************************************************************)
InitBuild ==
  /\ op = "none"
  /\ err = "none"
  /\ arg \in Declarations
  /\ argAfter = arg
  /\ inst = NoInstance
  /\ box = NoBox
  /\ ds = NoDataset
  /\ sliced = NoSlice
  /\ pops = NoPops
  /\ attrs = <<>>
  /\ ret = NoReturn

\* inst = Coordinates(arg)
Build ==
  /\ op = "none"
  /\ LET c == Coordinates(arg, <<>>)
     IN /\ op' = "Coordinates"
        /\ err' = c.err
        /\ inst' = c.inst
        /\ argAfter' = c.left
        /\ pops' = c.pops
        /\ arg' = arg
  /\ UNCHANGED <<box, ds, sliced, attrs, ret>>

NextBuild == Build

SpecBuild == InitBuild /\ [][NextBuild]_vars

(***************************************************************************)
(* Spec: the life of a Coordinates instance.                               *)
(***************************************************************************)
Init ==
  /\ op = "none"
  /\ err = "none"
  /\ arg = <<>>
  /\ argAfter = <<>>
  /\ inst = NoInstance
  /\ box = NoBox
  /\ ds = NoDataset
  /\ sliced = NoSlice
  /\ pops = NoPops
  /\ attrs = <<>>
  /\ ret = NoReturn

\* inst = Coordinates(d)
Construct ==
  /\ op = "none"
  /\ \E d \in Declarations :
       LET c == Coordinates(d, <<>>)
       IN /\ op' = "Coordinates"
          /\ err' = c.err
          /\ inst' = c.inst
  /\ UNCHANGED <<arg, argAfter, box, ds, sliced, pops, attrs, ret>>

\* inst._update(adds)
Update ==
  /\ inst.exists /\ err = "none"
  /\ \E adds \in Additions :
       \E ord \in OrdersFor(DictUpdate(inst.coords, adds)) :
         LET u == update(inst, adds, ord)
         IN /\ op' = "_update"
            /\ err' = u.err
            /\ inst' = u.inst
  /\ UNCHANGED <<arg, argAfter, box, ds, sliced, pops, attrs, ret>>

\* inst._update(None): dict.update(None) raises TypeError at line 99
UpdateNone ==
  /\ inst.exists /\ err = "none"
  /\ op' = "_update"
  /\ err' = "TypeError"
  /\ UNCHANGED <<arg, argAfter, inst, box, ds, sliced, pops, attrs, ret>>

\* inst = inst.copy()
Copy ==
  /\ inst.exists /\ err = "none"
  /\ \E ord \in OrdersFor(inst.coords) :
       LET c == copy(inst, ord)
       IN /\ op' = "copy"
          /\ err' = c.err
          /\ inst' = IF c.err = "none" THEN c.inst ELSE inst
  /\ UNCHANGED <<arg, argAfter, box, ds, sliced, pops, attrs, ret>>

Next == Construct \/ Update \/ UpdateNone \/ Copy

Spec == Init /\ [][Next]_vars

(***************************************************************************)
(* SpecContainer: a Series or DataFrame is constructed, and a DataFrame    *)
(* projected with to_xarray.                                               *)
(***************************************************************************)
InitContainer ==
  /\ op = "none"
  /\ err = "none"
  /\ arg = <<>>
  /\ argAfter = <<>>
  /\ inst = NoInstance
  /\ ds = NoDataset
  /\ sliced = NoSlice
  /\ pops = NoPops
  /\ attrs = <<>>
  /\ ret = NoReturn
  /\ \E kw \in MergeKw \cup GraphKw :
       \E index \in IndexChoices(kw) :
         box = [NoBox EXCEPT !.kw = kw, !.index = index]

Constructed(kind, r) ==
  /\ op' = kind
  /\ err' = r.err
  /\ inst' = r.inst
  /\ box' = IF r.err = "none"
            THEN [box EXCEPT !.kind = kind, !.attrs = r.attrs, !.used = r.used,
                             !.variables = r.variables]
            ELSE box
  /\ UNCHANGED <<arg, argAfter, ds, sliced, pops, attrs, ret>>

\* Series(data, **kw)
NewSeries ==
  /\ op = "none"
  /\ Constructed("Series", Series_init(box.kw, box.index))

\* DataFrame(data, **kw)
NewDataFrame ==
  /\ op = "none"
  /\ Constructed("DataFrame", DataFrame_init(box.kw, box.index))

\* ds = df.to_xarray()
ToXarray ==
  /\ box.kind = "DataFrame" /\ err = "none" /\ ~ds.done
  /\ LET r == to_xarray(inst, box.index)
     IN /\ op' = "to_xarray"
        /\ err' = r.err
        /\ ds' = r
  /\ UNCHANGED <<arg, argAfter, inst, box, sliced, pops, attrs, ret>>

\* sliced = df[column]
Slice ==
  /\ box.kind = "DataFrame" /\ err = "none" /\ ~sliced.done
  /\ \E propagates \in BOOLEAN :
       sliced' = getitem_column(inst, box.attrs, box.index, propagates)
  /\ op' = "getitem"
  /\ UNCHANGED <<err, arg, argAfter, inst, box, ds, pops, attrs, ret>>

\* container.update_coords()
UpdateCoords ==
  /\ box.kind \in {"Series", "DataFrame"} /\ err = "none"
  /\ LET r == update_coords(inst, box.index)
     IN /\ op' = "update_coords"
        /\ err' = r.err
        /\ inst' = r.inst
        /\ box' = [box EXCEPT !.index = r.index]
  /\ UNCHANGED <<arg, argAfter, ds, sliced, pops, attrs, ret>>

NextContainer ==
  NewSeries \/ NewDataFrame \/ ToXarray \/ Slice \/ UpdateCoords

SpecContainer == InitContainer /\ [][NextContainer]_vars

(***************************************************************************)
(* SpecAttrs: a standalone Attributes object; its entries are set, read    *)
(* with get and removed with pop.  The caller catches the exceptions.      *)
(***************************************************************************)
InitAttrs ==
  /\ op = "none"
  /\ err = "none"
  /\ arg = <<>>
  /\ argAfter = <<>>
  /\ inst = NoInstance
  /\ box = NoBox
  /\ ds = NoDataset
  /\ sliced = NoSlice
  /\ pops = NoPops
  /\ attrs \in {Attributes_init(m) : m \in AttrMaps}
  /\ ret = NoReturn

Returned(name, key, defaults, r) ==
  /\ op' = name
  /\ err' = r.err
  /\ attrs' = r.attrs
  /\ ret' = [has |-> r.has, v |-> r.v, key |-> key, defaults |-> defaults]
  /\ UNCHANGED <<arg, argAfter, inst, box, ds, sliced, pops>>

\* attrs[key] = v
AttrsSet ==
  /\ \E key \in AttrKeys, v \in AttrValues : attrs' = Put(attrs, key, v)
  /\ op' = "setitem"
  /\ err' = "none"
  /\ ret' = NoReturn
  /\ UNCHANGED <<arg, argAfter, inst, box, ds, sliced, pops>>

\* attrs.get(key, *defaults)
AttrsGet ==
  \E key \in AttrKeys, defaults \in Defaults :
    Returned("get", key, defaults, Attributes_get(attrs, key, defaults))

\* attrs.pop(key, *defaults)
AttrsPop ==
  \E key \in AttrKeys, defaults \in Defaults :
    Returned("pop", key, defaults, Attributes_pop(attrs, key, defaults))

NextAttrs == AttrsSet \/ AttrsGet \/ AttrsPop

SpecAttrs == InitAttrs /\ [][NextAttrs]_vars

(***************************************************************************)
(* Properties of a declaration.                                            *)
(***************************************************************************)
\* The coordinates reachable from those of S in at most n dependency steps.
RECURSIVE ReachIn(_, _, _)
ReachIn(od, S, n) ==
  IF n = 0 THEN {}
  ELSE LET step == UNION {DepNames(Get(od, k)) : k \in S \cap KeySet(od)}
       IN step \cup ReachIn(od, step, n - 1)

HasCycle(od) == \E k \in KeySet(od) : k \in ReachIn(od, {k}, Len(od))
Acyclic(od) == ~HasCycle(od)
HasBase(od) == \E i \in 1..Len(od) : od[i][2] = None
\* every dependency named is itself declared
Closed(od) == \A i \in 1..Len(od) : DepNames(od[i][2]) \subseteq KeySet(od)

\* The base-dependency sets of c are those the declaration od calls for.
BaseSetsRight(c, od) ==
  /\ DOMAIN c.base_deps = KeySet(od)
  /\ \A k \in KeySet(od) :
       c.base_deps[k] =
         IF Get(od, k) = None THEN {k}
         ELSE UNION {c.base_deps[d] : d \in DepNames(Get(od, k))}

(***************************************************************************)
(* C1 (as stated): for any acyclic declaration with at least one base      *)
(* coordinate the build succeeds, every base coordinate's base-dependency  *)
(* set is {itself} and every other coordinate's is the union of those of   *)
(* its direct dependencies.                                                *)
(***************************************************************************)
C1_AsStated ==
  (op = "Coordinates" /\ Acyclic(arg) /\ HasBase(arg))
    => (err = "none" /\ inst.exists /\ BaseSetsRight(inst, arg))

(***************************************************************************)
(* C1 (amended): the same, for acyclic declarations with a base coordinate *)
(* in which every dependency named is itself a declared coordinate.        *)
(***************************************************************************)
C1_BuildAcyclic ==
  (op = "Coordinates" /\ Acyclic(arg) /\ HasBase(arg) /\ Closed(arg))
    => (err = "none" /\ inst.exists /\ BaseSetsRight(inst, arg))

\* a built graph in which an alias of a multi-dependency coordinate has a
\* base coordinate that it does not name
C1_Witness ==
  /\ op = "Coordinates" /\ err = "none"
  /\ Acyclic(arg) /\ HasBase(arg) /\ Closed(arg)
  /\ \E k \in KeySet(arg) :
       /\ Get(arg, k).t = "str"
       /\ Get(arg, Get(arg, k).d).t = "list"
       /\ inst.base_deps[k] # {} /\ Get(arg, k).d \notin inst.base_deps[k]

(***************************************************************************)
(* C2: a declaration whose dependency graph has a cycle (through aliases   *)
(* or through multi-dependency coordinates, wherever the traversal starts) *)
(* fails to build with GraphIsCyclicError and yields no graph.  Stated for *)
(* the declarations that name declared coordinates only.                   *)
(***************************************************************************)
C2_CycleRejected ==
  (op = "Coordinates" /\ HasCycle(arg) /\ Closed(arg))
    => (err = "GraphIsCyclicError" /\ ~inst.exists)

(***************************************************************************)
(* C3: a non-empty declaration in which no coordinate has a null           *)
(* dependency fails to build; no graph with an empty base_coords list is   *)
(* returned for it.                                                        *)
(***************************************************************************)
C3_NoBaseRejected ==
  (op = "Coordinates" /\ arg # <<>> /\ ~HasBase(arg))
    => (err # "none" /\ ~inst.exists)

(***************************************************************************)
(* C4: a failing _update leaves the instance's dependency map, base_coords *)
(* and base-dependency map as they were before the call.                   *)
(***************************************************************************)
C4_UpdateAtomic ==
  [][(op' = "_update" /\ err' # "none") => inst' = inst]_vars

\* an _update rejected by the assertion on base_coords, on an instance that
\* has a base coordinate
C4_Witness ==
  /\ op = "_update" /\ err = "AssertionError"
  /\ inst.exists /\ Len(inst.base_coords) > 0

(***************************************************************************)
(* C5: an _update that returns successfully on an acyclic dependency map   *)
(* leaves an acyclic dependency map.                                       *)
(***************************************************************************)
C5_UpdateKeepsAcyclic ==
  [][(op' = "_update" /\ err' = "none" /\ inst.exists /\ Acyclic(inst.coords))
       => Acyclic(inst'.coords)]_vars

(***************************************************************************)
(* C6: a Coordinates instance that exists after a successful operation     *)
(* has at least one base coordinate.                                       *)
(***************************************************************************)
C6_HasBaseCoord ==
  (inst.exists /\ err = "none") => Len(inst.base_coords) > 0

(***************************************************************************)
(* C7: a build leaves the caller's declaration mapping with the keys and   *)
(* values it had before the call.                                          *)
(***************************************************************************)
C7_BuildPure ==
  op = "Coordinates" => argAfter = arg

(***************************************************************************)
(* C8: a Series or DataFrame constructed without coords (no coords         *)
(* argument, no attrs['coords']) has one base coordinate per index level,  *)
(* the named levels under their own names.                                 *)
(***************************************************************************)
C8_InferredFromIndex ==
  (box.kind \in {"Series", "DataFrame"}
     /\ ~box.kw.attrs_coords.has /\ ~box.kw.coords.has)
    => /\ Len(inst.base_coords) = Len(box.index)
       /\ \A i \in 1..Len(box.index) :
            box.index[i] # PyNone => box.index[i] \in Range(inst.base_coords)

\* m is the union of the mappings nested and direct, direct's values winning
MergedRight(m, nested, direct) ==
  /\ KeySet(m) = KeySet(nested) \cup KeySet(direct)
  /\ \A k \in KeySet(direct) : Get(m, k) = Get(direct, k)
  /\ \A k \in KeySet(nested) \ KeySet(direct) : Get(m, k) = Get(nested, k)

(***************************************************************************)
(* C9: a Series or DataFrame constructed with both attrs['coords'] and a   *)
(* coords argument declares the union of the two mappings, the argument's  *)
(* value winning for a key in both; likewise a DataFrame's variables; and  *)
(* the keys 'coords' (and, for a DataFrame, 'variables') are not among the *)
(* container's attrs.                                                      *)
(***************************************************************************)
C9_DirectWins ==
  box.kind \in {"Series", "DataFrame"} =>
    /\ (box.kw.attrs_coords.has /\ box.kw.coords.has)
         => MergedRight(box.used, box.kw.attrs_coords.m, box.kw.coords.m)
    /\ (box.kind = "DataFrame" /\ box.kw.attrs_variables.has /\ box.kw.variables.has)
         => MergedRight(box.variables, box.kw.attrs_variables.m, box.kw.variables.m)
    /\ "coords" \notin box.attrs
    /\ box.kind = "DataFrame" => "variables" \notin box.attrs

\* a DataFrame built from nested and direct coords that disagree on a key
C9_Witness ==
  /\ box.kind = "DataFrame"
  /\ box.kw.attrs_coords.has /\ box.kw.coords.has
  /\ \E k \in KeySet(box.kw.attrs_coords.m) \cap KeySet(box.kw.coords.m) :
       /\ Get(box.kw.attrs_coords.m, k) # Get(box.kw.coords.m, k)
       /\ Get(box.used, k) = Get(box.kw.coords.m, k)
  /\ box.kw.attrs_variables.has /\ box.kw.variables.has
  /\ \E k \in KeySet(box.kw.attrs_variables.m) \cap KeySet(box.kw.variables.m) :
       /\ Get(box.kw.attrs_variables.m, k) # Get(box.kw.variables.m, k)
       /\ Get(box.variables, k) = Get(box.kw.variables.m, k)
  /\ "author" \in box.attrs

\* The array of every derived coordinate with a base coordinate to depend on
\* has exactly the coordinate's base-dependency set as its dimensions.
CoordDimsRight(nonEmptyOnly) ==
  /\ {ds.coords[i][1] : i \in 1..Len(ds.coords)}
       = KeySet(inst.coords) \ Range(inst.base_coords)
  /\ \A i \in 1..Len(ds.coords) :
       (nonEmptyOnly => inst.base_deps[ds.coords[i][1]] # {})
         => Range(ds.coords[i][2]) = inst.base_deps[ds.coords[i][1]]

C11_SliceKeepsMetadata ==
  sliced.done => /\ sliced.inst.exists
                 /\ sliced.inst = inst
                 /\ sliced.attrs = box.attrs

C13_UpdateCoordsCompletes ==
  op = "update_coords" =>
    /\ err = "none"
    /\ \A i \in 1..Len(box.index) :
         box.index[i] # PyNone /\ box.index[i] \in Range(inst.base_coords)

\* The graphs c and d have the same coordinate -> dependency-set mapping
\* and the same base-dependency set for every coordinate.
SameMaps(c, d) ==
  /\ KeySet(c.coords) = KeySet(d.coords)
  /\ \A k \in KeySet(c.coords) : Get(c.coords, k) = Get(d.coords, k)
  /\ c.base_deps = d.base_deps

(***************************************************************************)
(* C14: for a validly built Coordinates c, c.copy() succeeds and yields a  *)
(* graph with the same coordinate -> dependency-set mapping as c, the same *)
(* base_coords in the same order and the same base-dependency set for      *)
(* every coordinate.  Stated for the instances whose dependency map is     *)
(* acyclic.                                                                *)
(***************************************************************************)
C14_CopyIdempotent ==
  [][(op' = "copy" /\ Acyclic(inst.coords)) =>
       (err' = "none" /\ SameMaps(inst', inst)
          /\ inst'.base_coords = inst.base_coords)]_vars

(***************************************************************************)
(* C15: the build of every declaration (acyclic, cyclic, or naming         *)
(* coordinates that are not declared) terminates, returning a graph or     *)
(* raising an error, and calls coords.pop at most once on any name: no     *)
(* coordinate is resolved twice.  A run is either over or can take the     *)
(* build step, whose traversal comes to an outcome; BuildEnabled is        *)
(* ENABLED Build written out, Build having no guard but op = "none".       *)
(***************************************************************************)
BuildOutcomes == {"none", "GraphIsCyclicError", "KeyError"}

BuildEnabled ==
  op = "none" /\ Coordinates(arg, <<>>).err \in BuildOutcomes

C15_BuildTerminates ==
  /\ op = "Coordinates" \/ BuildEnabled
  /\ op = "Coordinates" =>
       /\ err \in BuildOutcomes
       /\ err = "none" <=> inst.exists
       /\ \A n \in Names : pops[n] <= 1
       /\ \A n \in KeySet(arg) \ KeySet(argAfter) : pops[n] = 1

\* a build that returned on a declaration with a cycle in which one
\* coordinate is a dependency of the two others
C15_Witness ==
  /\ op = "Coordinates" /\ err = "none" /\ HasCycle(arg)
  /\ \A n \in Names : pops[n] = 1
  /\ \E n \in Names :
       Cardinality({k \in KeySet(arg) \ {n} : n \in DepNames(Get(arg, k))}) = 2

=============================================================================
